---- MODULE Spec2Model ----
(***************************************************************************)
(* The build of the MiSTeX core for the Terasic DECA with the MiSTeX cape  *)
(* (mistex_boards/terasic_deca_mistex_cape.py): main() run statement by    *)
(* statement, the wiring Top.__init__ elaborates, and the combinational    *)
(* logic of the Avalon bridge between the ddr3 and sys_top instances.      *)
(***************************************************************************)
EXTENDS Integers, Sequences, FiniteSets, TLC

VARIABLES
    pc,              \* the statement of main() / Top.__init__ about to run
    manifestDefines, \* input: the 'defines' map of MiSTeX.yaml, in file order
    boardDecl,       \* input: resource names the board platform file declares
    defines,         \* main's local 'defines' (an insertion-ordered dict)
    commands,        \* platform commands registered by add_platform_command
    available,       \* platform resources declared and not yet requested
    requested,       \* resources handed out by platform.request, in order
    claimed,         \* connector pins of the requested resources, with owner
    signals,         \* Signals created by Top, with their widths
    clockDomains,    \* clock domains created by Top
    syncHome,        \* logic that is synchronous to a named clock domain
    preBridge,       \* syncHome as it was when the clock assignments were made
    instances,       \* black-box instances added to self.specials, in order
    bindings,        \* port connections of the instances
    comb,            \* combinational assignments of Top
    error,           \* the exception that ended main(), or "none"
    sent,            \* the directive list handed to the toolchain
    artifacts,       \* files in the build directory
    convExit,        \* exit status of quartus_cpf (-1: not run)
    reported,        \* failures main() raised to its caller
    visited,         \* the statements run so far, in order
    hw               \* values on the wires of the elaborated circuit

vars == <<pc, manifestDefines, boardDecl, defines, commands,
          available, requested, claimed, signals, clockDomains, syncHome,
          preBridge, instances, bindings, comb, error, sent, artifacts,
          convExit, reported, visited, hw>>

buildVars == <<pc, manifestDefines, boardDecl, defines, commands,
               available, requested, claimed, signals, clockDomains, syncHome,
               preBridge, instances, bindings, comb, error, sent, artifacts,
               convExit, reported, visited>>

(***************************************************************************)
(* Bounds of the inputs.                                                   *)
(***************************************************************************)
MaxDefines == 2
MaxValue == 1

(***************************************************************************)
(* Program constants.                                                      *)
(***************************************************************************)
AW == 26
DW == 64

debug == FALSE

Range(s) == {s[i] : i \in 1..Len(s)}

Keys(d) == {d[i][1] : i \in 1..Len(d)}

(***************************************************************************)
(* Python dict semantics: d[key] = value keeps the position of an existing *)
(* key and replaces its value; a new key is appended.  dict.update(u) does *)
(* this for the items of u in order.                                       *)
(***************************************************************************)
DictSet(d, k, v) ==
    IF k \in Keys(d)
    THEN [i \in 1..Len(d) |-> IF d[i][1] = k THEN <<k, v>> ELSE d[i]]
    ELSE Append(d, <<k, v>>)

RECURSIVE DictUpdate(_, _)
DictUpdate(d, u) ==
    IF u = <<>> THEN d
    ELSE DictUpdate(DictSet(d, Head(u)[1], Head(u)[2]), Tail(u))

BoardMacros ==
    << <<"ALTERA", 1>>, <<"OSD_HEADER", 1>>, <<"CRG_AUDIO_CLK", 1>>,
       <<"HARDWARE_HDMI_INIT", 1>>, <<"NO_SCANDOUBLER", 1>>,
       <<"DISABLE_VGA", 1>>, <<"SKIP_SHADOWMASK", 1>>,
       <<"SKIP_IIR_FILTER", 1>>, <<"MISTER_DISABLE_YC", 1>>,
       <<"MISTER_DISABLE_ALSA", 1>> >>

MergeDefinesManifestWins(m) == DictUpdate(BoardMacros, m)

MergeDefines(m) == DictUpdate(m, BoardMacros)

MacroCommand(k, v) ==
    "set_global_assignment -name VERILOG_MACRO \"" \o k \o "=" \o ToString(v) \o "\""

MacroCommands(d) == [i \in 1..Len(d) |-> MacroCommand(d[i][1], d[i][2])]

Assignment(name, value) == "set_global_assignment -name " \o name \o " " \o value

BaselineCommands ==
    << Assignment("QIP_FILE", "<cwd>/rtl/deca-ddr3/ddr3.qip"),
       Assignment("TIMEQUEST_MULTICORNER_ANALYSIS", "OFF"),
       Assignment("OPTIMIZE_POWER_DURING_FITTING", "OFF"),
       Assignment("FINAL_PLACEMENT_OPTIMIZATION", "ALWAYS"),
       Assignment("FITTER_EFFORT", "\"STANDARD FIT\""),
       Assignment("OPTIMIZATION_MODE", "\"HIGH PERFORMANCE EFFORT\""),
       Assignment("ALLOW_POWER_UP_DONT_CARE", "ON"),
       Assignment("QII_AUTO_PACKED_REGISTERS", "\"SPARSE AUTO\""),
       Assignment("ROUTER_LCELL_INSERTION_AND_LOGIC_DUPLICATION", "ON"),
       Assignment("PHYSICAL_SYNTHESIS_COMBO_LOGIC", "ON"),
       Assignment("PHYSICAL_SYNTHESIS_EFFORT", "EXTRA"),
       Assignment("PHYSICAL_SYNTHESIS_REGISTER_DUPLICATION", "ON"),
       Assignment("PHYSICAL_SYNTHESIS_REGISTER_RETIMING", "ON"),
       Assignment("OPTIMIZATION_TECHNIQUE", "SPEED"),
       Assignment("MUX_RESTRUCTURE", "ON"),
       Assignment("REMOVE_REDUNDANT_LOGIC_CELLS", "ON"),
       Assignment("AUTO_DELAY_CHAINS_FOR_HIGH_FANOUT_INPUT_PINS", "ON"),
       Assignment("PHYSICAL_SYNTHESIS_COMBO_LOGIC_FOR_AREA", "ON"),
       Assignment("ADV_NETLIST_OPT_SYNTH_WYSIWYG_REMAP", "ON"),
       Assignment("SYNTH_GATED_CLOCK_CONVERSION", "ON"),
       Assignment("PRE_MAPPING_RESYNTHESIS", "ON"),
       Assignment("ROUTER_CLOCKING_TOPOLOGY_ANALYSIS", "ON"),
       Assignment("ECO_OPTIMIZE_TIMING", "ON"),
       Assignment("PERIPHERY_TO_CORE_PLACEMENT_AND_ROUTING_OPTIMIZATION", "ON"),
       Assignment("PHYSICAL_SYNTHESIS_ASYNCHRONOUS_SIGNAL_PIPELINING", "ON"),
       Assignment("ALM_REGISTER_PACKING_EFFORT", "LOW"),
       Assignment("OPTIMIZE_POWER_DURING_SYNTHESIS", "OFF"),
       Assignment("ROUTER_REGISTER_DUPLICATION", "ON"),
       Assignment("FITTER_AGGRESSIVE_ROUTABILITY_OPTIMIZATION", "ALWAYS"),
       Assignment("SEED", "1") >>


(***************************************************************************)
(* The platform's resource registry.  A resource is <<name, number>>; the  *)
(* cape resources carry the connector pins written in main().              *)
(***************************************************************************)
Sub(name, pins) == [sub |-> name, pins |-> pins]

Res(name, idx, subs) == [name |-> name, idx |-> idx, subs |-> subs]

SdramClockPinsOnP8_21 == <<"P8:21">>

SdramClockPins == <<"P8:22">>

CapeExtension ==
    << Res("hps_i2c", 0, {Sub("sda", <<"P9:26">>), Sub("scl", <<"P9:27">>)}),
       Res("hps_spi", 0, {Sub("mosi", <<"P9:23">>), Sub("miso", <<"P9:24">>),
                          Sub("clk", <<"P9:22">>), Sub("cs_n", <<"P9:21">>)}),
       Res("hps_control", 0, {Sub("fpga_enable", <<"P9:18">>),
                              Sub("osd_enable", <<"P9:19">>),
                              Sub("io_enable", <<"P9:20">>),
                              Sub("core_reset", <<"P9:17">>)}),
       Res("sdram_clock", 0, {Sub("", SdramClockPins)}),
       Res("sdram", 0,
           {Sub("a", <<"P8:39", "P8:40", "P8:41", "P8:42", "P8:30", "P8:27",
                       "P8:28", "P8:25", "P8:26", "P8:23", "P8:38", "P8:24",
                       "P8:21">>),
            Sub("ba", <<"P8:36", "P8:37">>),
            Sub("cs_n", <<"P8:35">>),
            Sub("ras_n", <<"P8:34">>),
            Sub("cas_n", <<"P8:33">>),
            Sub("we_n", <<"P8:29">>),
            Sub("dq", <<"P8:3", "P8:4", "P8:5", "P8:6", "P8:7", "P8:8",
                        "P8:9", "P8:10", "P8:20", "P8:19", "P8:18", "P8:17",
                        "P8:16", "P8:15", "P8:12", "P8:11">>)}),
       Res("spibone", 0, {Sub("clk", <<"P8:13">>), Sub("mosi", <<"P8:31">>),
                          Sub("miso", <<"P8:43">>), Sub("cs_n", <<"P9:41">>)}) >>

\* The resources of the board platform file that Top asks for, by name.
BoardNames ==
    {"ddram", "hdmi", "hdmi_i2c", "hdmi_i2s", "sdcard", "user_led", "clk50",
     "user_btn"}

BoardIndices(name) ==
    IF name = "user_led" THEN 0..7
    ELSE IF name = "user_btn" THEN 0..1
    ELSE {0}

BoardResources(decl) == UNION {{<<n, i>> : i \in BoardIndices(n)} : n \in decl}

ExtensionResources(ext) == {<<ext[i].name, ext[i].idx>> : i \in 1..Len(ext)}

\* The claims a resource makes: {[pin, owner]}, owner = <<name, number, subsignal, bit>>.
ClaimsOf(r) ==
    UNION { UNION { { [pin |-> s.pins[b], owner |-> <<x.name, x.idx, s.sub, b - 1>>]
                      : b \in 1..Len(s.pins) }
                    : s \in x.subs }
            : x \in {y \in Range(CapeExtension) : <<y.name, y.idx>> = r} }

\* GenericPlatform.request(name, number): the first available resource of
\* that name (and number, when one is given; NoNumber stands for None) is
\* taken out of the available list; none available raises ConstraintError.
NoNumber == -1

Matches(avail, name, number) ==
    {r \in avail : r[1] = name /\ (number = NoNumber \/ r[2] = number)}

First(rs) == CHOOSE r \in rs : \A q \in rs : r[2] <= q[2]

Request(st, name, number) ==
    LET m == Matches(st.available, name, number) IN
    IF st.err # "none" THEN st
    ELSE IF m = {} THEN [st EXCEPT !.err = "ConstraintError", !.missing = name]
    ELSE [st EXCEPT !.available = @ \ {First(m)},
                    !.requested = Append(@, First(m)),
                    !.claimed   = @ \cup ClaimsOf(First(m))]

RECURSIVE RequestAll(_, _)
RequestAll(st, reqs) ==
    IF reqs = <<>> THEN st
    ELSE RequestAll(Request(st, Head(reqs)[1], Head(reqs)[2]), Tail(reqs))

Registry == [available |-> available, requested |-> requested,
             claimed |-> claimed, err |-> "none", missing |-> ""]


(***************************************************************************)
(* The wiring Top.__init__ elaborates.  A port binding is                  *)
(* <<instance, port, direction, net, bit>>: the direction is the prefix of *)
(* the Instance keyword (i_, o_, io_), the net is a Signal of Top, a pad   *)
(* of a requested resource ("pad:...") or the clock/reset of a clock       *)
(* domain; bit is All for the whole net or the index of the one bit.       *)
(***************************************************************************)
All == -1

B(inst, port, dir, net, bit) == <<inst, port, dir, net, bit>>

Ddr3ClockPorts ==
    { B("ddr3", "pll_ref_clk", "i", "clk50", All),
      B("ddr3", "global_reset_n", "i", "cd_sys.rst", All),
      B("ddr3", "soft_reset_n", "i", "cd_sys.rst", All),
      B("ddr3", "afi_clk", "o", "avalon_clock", All),
      B("ddr3", "afi_half_clk", "o", "afi_half_clk", All),
      B("ddr3", "afi_reset_n", "o", "afi_reset_export_n", All),
      B("ddr3", "afi_reset_export_n", "o", "afi_reset_n", All) }

Ddr3MemPorts ==
    { B("ddr3", "mem_a", "o", "pad:ddram.a", All),
      B("ddr3", "mem_ba", "o", "pad:ddram.ba", All),
      B("ddr3", "mem_ck", "io", "pad:ddram.clk_p", All),
      B("ddr3", "mem_ck_n", "io", "pad:ddram.clk_n", All),
      B("ddr3", "mem_cke", "o", "pad:ddram.cke", All),
      B("ddr3", "mem_cs_n", "o", "pad:ddram.cs_n", All),
      B("ddr3", "mem_dm", "o", "pad:ddram.dm", All),
      B("ddr3", "mem_ras_n", "o", "pad:ddram.ras_n", All),
      B("ddr3", "mem_cas_n", "o", "pad:ddram.cas_n", All),
      B("ddr3", "mem_we_n", "o", "pad:ddram.we_n", All),
      B("ddr3", "mem_reset_n", "o", "pad:ddram.reset_n", All),
      B("ddr3", "mem_dq", "io", "pad:ddram.dq", All),
      B("ddr3", "mem_dqs", "io", "pad:ddram.dqs_p", All),
      B("ddr3", "mem_dqs_n", "io", "pad:ddram.dqs_n", All),
      B("ddr3", "mem_odt", "o", "pad:ddram.odt", All) }

Ddr3AvalonPorts ==
    { B("ddr3", "avl_ready", "o", "avalon_ready", All),
      B("ddr3", "avl_burstbegin", "i", "avalon_burstbegin", All),
      B("ddr3", "avl_addr", "i", "avalon_address", All),
      B("ddr3", "avl_rdata_valid", "o", "avalon_readdatavalid", All),
      B("ddr3", "avl_rdata", "o", "avalon_readdata", All),
      B("ddr3", "avl_wdata", "i", "avalon_writedata", All),
      B("ddr3", "avl_be", "i", "avalon_byteenable", All),
      B("ddr3", "avl_read_req", "i", "avalon_read", All),
      B("ddr3", "avl_write_req", "i", "avalon_write", All),
      B("ddr3", "avl_size", "i", "avalon_burstcount", All) }

Ddr3StatusPortsOnLed2 ==
    { B("ddr3", "local_init_done", "o", "leds", 5),
      B("ddr3", "local_cal_success", "o", "leds", 6),
      B("ddr3", "local_cal_fail", "o", "leds", 7),
      B("ddr3", "pll_locked", "o", "leds", 2) }

Ddr3StatusPorts ==
    { B("ddr3", "local_init_done", "o", "leds", 5),
      B("ddr3", "local_cal_success", "o", "leds", 6),
      B("ddr3", "local_cal_fail", "o", "leds", 7),
      B("ddr3", "pll_locked", "o", "leds", 4) }

Ddr3Ports == Ddr3ClockPorts \cup Ddr3MemPorts \cup Ddr3AvalonPorts \cup Ddr3StatusPorts

SysTopBoardPorts ==
    { B("sys_top", "CLK_50", "i", "clk50", All),
      B("sys_top", "HDMI_I2C_SCL", "o", "pad:hdmi_i2c.scl", All),
      B("sys_top", "HDMI_I2C_SDA", "io", "pad:hdmi_i2c.sda", All),
      B("sys_top", "HDMI_MCLK", "o", "pad:hdmi_i2s.mclk", All),
      B("sys_top", "HDMI_SCLK", "o", "pad:hdmi_i2s.sclk", All),
      B("sys_top", "HDMI_LRCLK", "o", "pad:hdmi_i2s.lrclk", All),
      B("sys_top", "HDMI_I2S", "o", "pad:hdmi_i2s.i2s", All),
      B("sys_top", "HDMI_TX_D", "o", "pad:hdmi.r", All),
      B("sys_top", "HDMI_TX_D", "o", "pad:hdmi.g", All),
      B("sys_top", "HDMI_TX_D", "o", "pad:hdmi.b", All),
      B("sys_top", "HDMI_TX_CLK", "o", "pad:hdmi.clk", All),
      B("sys_top", "HDMI_TX_DE", "o", "pad:hdmi.de", All),
      B("sys_top", "HDMI_TX_HS", "o", "pad:hdmi.hsync", All),
      B("sys_top", "HDMI_TX_VS", "o", "pad:hdmi.vsync", All),
      B("sys_top", "HDMI_TX_INT", "i", "pad:hdmi.int", All),
      B("sys_top", "SDRAM_A", "o", "pad:sdram.a", All),
      B("sys_top", "SDRAM_DQ", "io", "pad:sdram.dq", All),
      B("sys_top", "SDRAM_nWE", "o", "pad:sdram.we_n", All),
      B("sys_top", "SDRAM_nCAS", "o", "pad:sdram.cas_n", All),
      B("sys_top", "SDRAM_nRAS", "o", "pad:sdram.ras_n", All),
      B("sys_top", "SDRAM_nCS", "o", "pad:sdram.cs_n", All),
      B("sys_top", "SDRAM_BA", "o", "pad:sdram.ba", All),
      B("sys_top", "SDRAM_CLK", "o", "pad:sdram_clock", All),
      B("sys_top", "LED_USER", "o", "leds", 2),
      B("sys_top", "LED_HDD", "o", "leds", 1),
      B("sys_top", "LED_POWER", "o", "leds", 0),
      B("sys_top", "BTN_OSD", "i", "pad:user_btn0", All),
      B("sys_top", "BTN_RESET", "i", "pad:user_btn1", All),
      B("sys_top", "SD_SPI_CS", "o", "pad:sdcard.sel", All),
      B("sys_top", "SD_SPI_MISO", "i", "pad:sdcard.data", 0),
      B("sys_top", "SD_SPI_CLK", "o", "pad:sdcard.clk", All),
      B("sys_top", "SD_SPI_MOSI", "o", "pad:sdcard.cmd", All),
      B("sys_top", "HPS_SPI_MOSI", "i", "pad:hps_spi.mosi", All),
      B("sys_top", "HPS_SPI_MISO", "o", "pad:hps_spi.miso", All),
      B("sys_top", "HPS_SPI_CLK", "i", "pad:hps_spi.clk", All),
      B("sys_top", "HPS_SPI_CS", "i", "pad:hps_spi.cs_n", All),
      B("sys_top", "HPS_FPGA_ENABLE", "i", "pad:hps_control.fpga_enable", All),
      B("sys_top", "HPS_OSD_ENABLE", "i", "pad:hps_control.osd_enable", All),
      B("sys_top", "HPS_IO_ENABLE", "i", "pad:hps_control.io_enable", All),
      B("sys_top", "HPS_CORE_RESET", "i", "pad:hps_control.core_reset", All) }

SysTopAvalonPortsSizeOnByteenable ==
    { B("sys_top", "ddr3_clk_i", "i", "avalon_clock", All),
      B("sys_top", "ddr3_address_o", "o", "avalon_address", All),
      B("sys_top", "ddr3_byteenable_o", "o", "avalon_byteenable", All),
      B("sys_top", "ddr3_read_o", "o", "avalon_read", All),
      B("sys_top", "ddr3_readdata_i", "i", "avalon_readdata", All),
      B("sys_top", "ddr3_burstcount_o", "o", "avalon_byteenable", All),
      B("sys_top", "ddr3_write_o", "o", "avalon_write", All),
      B("sys_top", "ddr3_writedata_o", "o", "avalon_writedata", All),
      B("sys_top", "ddr3_waitrequest_i", "i", "avalon_waitrequest", All),
      B("sys_top", "ddr3_readdatavalid_i", "i", "avalon_readdatavalid", All) }

SysTopAvalonPorts ==
    { B("sys_top", "ddr3_clk_i", "i", "avalon_clock", All),
      B("sys_top", "ddr3_address_o", "o", "avalon_address", All),
      B("sys_top", "ddr3_byteenable_o", "o", "avalon_byteenable", All),
      B("sys_top", "ddr3_read_o", "o", "avalon_read", All),
      B("sys_top", "ddr3_readdata_i", "i", "avalon_readdata", All),
      B("sys_top", "ddr3_burstcount_o", "o", "avalon_burstcount", All),
      B("sys_top", "ddr3_write_o", "o", "avalon_write", All),
      B("sys_top", "ddr3_writedata_o", "o", "avalon_writedata", All),
      B("sys_top", "ddr3_waitrequest_i", "i", "avalon_waitrequest", All),
      B("sys_top", "ddr3_readdatavalid_i", "i", "avalon_readdatavalid", All) }

SysTopPorts == SysTopBoardPorts \cup SysTopAvalonPorts

\* A combinational assignment lhs.eq(op(rhs)).
Eq(lhs, op, rhs) == [lhs |-> lhs, op |-> op, rhs |-> rhs]

LedsComb == { Eq("pad:user_led", "not", {"leds"}) }

Clk50Comb == { Eq("clk50", "id", {"pad:clk50"}) }

BridgeCombSysIntoAvalon ==
    { Eq("avalon_burstbegin", "and", {"avalon_write", "avalon_read"}),
      Eq("avalon_waitrequest", "not", {"avalon_ready"}),
      Eq("cd_avalon.clk", "id", {"avalon_clock"}),
      Eq("cd_avalon.clk", "id", {"cd_sys.clk"}) }

BridgeComb ==
    { Eq("avalon_burstbegin", "and", {"avalon_write", "avalon_read"}),
      Eq("avalon_waitrequest", "not", {"avalon_ready"}),
      Eq("cd_avalon.clk", "id", {"avalon_clock"}),
      Eq("cd_sys.clk", "id", {"cd_avalon.clk"}) }

AvalonSignals ==
    { <<"avalon_clock", 1>>, <<"avalon_address", AW>>,
      <<"avalon_byteenable", DW \div 8>>, <<"avalon_read", 1>>,
      <<"avalon_readdata", DW>>, <<"avalon_burstcount", 8>>,
      <<"avalon_write", 1>>, <<"avalon_writedata", DW>>,
      <<"avalon_ready", 1>>, <<"avalon_readdatavalid", 1>>,
      <<"avalon_burstbegin", 1>>, <<"avalon_waitrequest", 1>>,
      <<"afi_half_clk", 1>>, <<"afi_reset_export_n", 1>>,
      <<"afi_reset_n", 1>> }

\* Who drives and who reads bit b of a net (b = All: any bit of it).
Overlaps(b1, b2) == b1 = All \/ b2 = All \/ b1 = b2

Drivers(bs, cs, net, bit) ==
    {<<x[1], x[2]>> : x \in {y \in bs : y[3] = "o" /\ y[4] = net /\ Overlaps(y[5], bit)}}
    \cup {<<"comb", c.lhs>> : c \in {d \in cs : d.lhs = net}}

Readers(bs, cs, net) ==
    {<<x[1], x[2]>> : x \in {y \in bs : y[3] = "i" /\ y[4] = net}}
    \cup {<<"comb", c.lhs>> : c \in {d \in cs : net \in d.rhs}}

Nets(bs, cs) == {x[4] : x \in bs} \cup {c.lhs : c \in cs}

\* The source a clock net is derived from: through the .eq() chain down to
\* an instance output port, or the net itself when nothing drives it.
RECURSIVE ClockRoot(_, _, _, _)
ClockRoot(bs, cs, net, fuel) ==
    LET ids  == {c \in cs : c.lhs = net /\ c.op = "id"}
        outs == {x \in bs : x[3] = "o" /\ x[4] = net}
    IN  IF fuel = 0 THEN net
        ELSE IF ids # {}
        THEN ClockRoot(bs, cs, CHOOSE n \in (CHOOSE c \in ids : TRUE).rhs : TRUE, fuel - 1)
        ELSE IF outs # {}
        THEN LET x == CHOOSE y \in outs : TRUE IN x[1] \o "." \o x[2]
        ELSE net

ClockNet(domain) == "cd_" \o domain \o ".clk"


(***************************************************************************)
(* The combinational logic of Top, on wire values.  A Signal() is one bit  *)
(* wide, leds is eight bits wide; ~ and & are Verilog's bitwise operators  *)
(* at the width of the assigned signal.                                    *)
(***************************************************************************)
Not1(x) == (1 - x) % 2

And1(x, y) == (x * y) % 2

Not8(x) == (255 - x) % 256

BurstbeginIsOr(write, read) == (write + read - write * read) % 2

Burstbegin(write, read) == And1(write, read)

Waitrequest(ready) == Not1(ready)

UserLeds(leds) == Not8(leds)

\* The wires after the combinational logic has settled on the values the
\* two black boxes put on their output ports.
Settle(read, write, ready, ledsLo, ledsHi) ==
    [ avalon_read        |-> read,
      avalon_write       |-> write,
      avalon_ready       |-> ready,
      avalon_burstbegin  |-> Burstbegin(write, read),
      avalon_waitrequest |-> Waitrequest(ready),
      leds               |-> ledsLo + 16 * ledsHi,
      user_led           |-> UserLeds(ledsLo + 16 * ledsHi) ]

(***************************************************************************)
(* The inputs of a run.                                                    *)
(***************************************************************************)
ManifestKeys == {"ALTERA", "MISTER_DISABLE_ALSA", "MISTER_FB"}

Distinct(d) == \A i, j \in 1..Len(d) : d[i][1] = d[j][1] => i = j

ManifestInputs ==
    {d \in UNION {[1..n -> ManifestKeys \X (0..MaxValue)] : n \in 0..MaxDefines}
       : Distinct(d)}

BoardInputs == {BoardNames} \cup {BoardNames \ {n} : n \in BoardNames}

BuildInit ==
    /\ pc = "LoadManifest"
    /\ manifestDefines \in ManifestInputs
    /\ boardDecl \in BoardInputs
    /\ defines = <<>>
    /\ commands = <<>>
    /\ available = {}
    /\ requested = <<>>
    /\ claimed = {}
    /\ signals = {}
    /\ clockDomains = {}
    /\ syncHome = {}
    /\ preBridge = {}
    /\ instances = <<>>
    /\ bindings = {}
    /\ comb = {}
    /\ error = "none"
    /\ sent = <<>>
    /\ artifacts = {}
    /\ convExit = -1
    /\ reported = {}
    /\ visited = <<>>

Init == BuildInit /\ hw = Settle(0, 0, 0, 0, 0)

(***************************************************************************)
(* main() and Top.__init__, statement by statement.  main() has no         *)
(* try/except: an exception leaves main() at the statement that raised it. *)
(***************************************************************************)
StatementOrderEmitLast ==
    << "LoadManifest", "Platform", "AddDesignFiles", "AddExtension",
       "BuildNames", "TopRequest", "TopLeds", "TopClk50", "TopDomains",
       "TopSoCCore", "TopSignals", "TopDdr3", "TopComb", "TopSysTop",
       "Builder", "EmitBaseline", "MergeDefines", "EmitMacros",
       "Build", "PostProcess", "Done" >>

StatementOrderExtensionLate ==
    << "LoadManifest", "Platform", "AddDesignFiles", "EmitBaseline",
       "MergeDefines", "EmitMacros", "BuildNames", "TopRequest",
       "AddExtension", "TopLeds", "TopClk50", "TopDomains", "TopSoCCore",
       "TopSignals", "TopDdr3", "TopComb", "TopSysTop", "Builder", "Build",
       "PostProcess", "Done" >>

StatementOrder ==
    << "LoadManifest", "Platform", "AddDesignFiles", "EmitBaseline",
       "MergeDefines", "EmitMacros", "AddExtension", "BuildNames",
       "TopRequest", "TopLeds", "TopClk50", "TopDomains", "TopSoCCore",
       "TopSignals", "TopDdr3", "TopComb", "TopSysTop", "Builder", "Build",
       "PostProcess", "Done" >>

After(stmt) ==
    StatementOrder[(CHOOSE i \in 1..Len(StatementOrder) : StatementOrder[i] = stmt) + 1]

At(stmt) == pc = stmt /\ visited' = Append(visited, stmt)

Goto(stmt) == pc' = stmt /\ error' = error /\ reported' = reported

RaiseSwallowed(stmt, exc) ==
    /\ pc' = After(stmt)
    /\ error' = exc
    /\ reported' = reported

Raise(stmt, exc) ==
    /\ pc' = "Failed"
    /\ error' = exc
    /\ reported' = reported \cup {exc}


\* line 244: yaml.load(open(join(coredir, "MiSTeX.yaml"))).
LoadManifest ==
    /\ At("LoadManifest")
    /\ Goto(After("LoadManifest"))
    /\ UNCHANGED <<manifestDefines, boardDecl, defines, commands, available,
                   requested, claimed, signals, clockDomains, syncHome,
                   preBridge, instances, bindings, comb, sent, artifacts,
                   convExit, hw>>

\* line 244, the file is missing or is not YAML.
LoadManifestFails ==
    /\ At("LoadManifest")
    /\ Raise("LoadManifest", "ManifestError")
    /\ UNCHANGED <<manifestDefines, boardDecl, defines, commands, available,
                   requested, claimed, signals, clockDomains, syncHome,
                   preBridge, instances, bindings, comb, sent, artifacts,
                   convExit, hw>>

\* line 246: terasic_deca.Platform() brings the board's resources.
Platform ==
    /\ At("Platform")
    /\ available' = available \cup BoardResources(boardDecl)
    /\ Goto(After("Platform"))
    /\ UNCHANGED <<manifestDefines, boardDecl, defines, commands,
                   requested, claimed, signals, clockDomains, syncHome,
                   preBridge, instances, bindings, comb, sent, artifacts,
                   convExit, hw>>

\* lines 248-251: add_designfiles, generate_build_id, add_mainfile (util).
AddDesignFiles ==
    /\ At("AddDesignFiles")
    /\ Goto(After("AddDesignFiles"))
    /\ UNCHANGED <<manifestDefines, boardDecl, defines, commands, available,
                   requested, claimed, signals, clockDomains, syncHome,
                   preBridge, instances, bindings, comb, sent, artifacts,
                   convExit, hw>>

\* lines 248-251, a file the manifest names is missing.
AddDesignFilesFails ==
    /\ At("AddDesignFiles")
    /\ Raise("AddDesignFiles", "ManifestError")
    /\ UNCHANGED <<manifestDefines, boardDecl, defines, commands, available,
                   requested, claimed, signals, clockDomains, syncHome,
                   preBridge, instances, bindings, comb, sent, artifacts,
                   convExit, hw>>

\* lines 253-282: thirty add_platform_command calls.
EmitBaseline ==
    /\ At("EmitBaseline")
    /\ commands' = commands \o BaselineCommands
    /\ Goto(After("EmitBaseline"))
    /\ UNCHANGED <<manifestDefines, boardDecl, defines, available,
                   requested, claimed, signals, clockDomains, syncHome,
                   preBridge, instances, bindings, comb, sent, artifacts,
                   convExit, hw>>

\* lines 284-300: defines = mistex_yaml.get('defines', {}); defines.update({...}).
MergeDefinesStep ==
    /\ At("MergeDefines")
    /\ defines' = MergeDefines(manifestDefines)
    /\ Goto(After("MergeDefines"))
    /\ UNCHANGED <<manifestDefines, boardDecl, commands, available,
                   requested, claimed, signals, clockDomains, syncHome,
                   preBridge, instances, bindings, comb, sent, artifacts,
                   convExit, hw>>

\* lines 302-303: one VERILOG_MACRO command per item of defines.
EmitMacros ==
    /\ At("EmitMacros")
    /\ commands' = commands \o MacroCommands(defines)
    /\ Goto(After("EmitMacros"))
    /\ UNCHANGED <<manifestDefines, boardDecl, defines, available,
                   requested, claimed, signals, clockDomains, syncHome,
                   preBridge, instances, bindings, comb, sent, artifacts,
                   convExit, hw>>

\* lines 305-348: platform.add_extension([...]).
AddExtension ==
    /\ At("AddExtension")
    /\ available' = available \cup ExtensionResources(CapeExtension)
    /\ Goto(After("AddExtension"))
    /\ UNCHANGED <<manifestDefines, boardDecl, defines, commands,
                   requested, claimed, signals, clockDomains, syncHome,
                   preBridge, instances, bindings, comb, sent, artifacts,
                   convExit, hw>>

\* lines 350-351: get_build_dir, get_build_name (util).
BuildNames ==
    /\ At("BuildNames")
    /\ Goto(After("BuildNames"))
    /\ UNCHANGED <<manifestDefines, boardDecl, defines, commands, available,
                   requested, claimed, signals, clockDomains, syncHome,
                   preBridge, instances, bindings, comb, sent, artifacts,
                   convExit, hw>>

(***************************************************************************)
(* Top(platform), evaluated as the first argument of Builder (line 353).   *)
(***************************************************************************)
TopRequests ==
    << <<"sdram", NoNumber>>, <<"ddram", NoNumber>>, <<"hps_i2c", NoNumber>>,
       <<"hdmi", NoNumber>>, <<"hdmi_i2c", NoNumber>>, <<"hdmi_i2s", NoNumber>>,
       <<"sdcard", NoNumber>>, <<"hps_spi", NoNumber>>,
       <<"hps_control", NoNumber>> >>

LedRequests == [l \in 1..8 |-> <<"user_led", l - 1>>]

Clk50Requests == << <<"clk50", NoNumber>> >>

SysTopRequests ==
    << <<"sdram_clock", NoNumber>>, <<"user_btn", 0>>, <<"user_btn", 1>> >>

DebugRequests == << <<"spibone", NoNumber>> >>

\* The registry after the requests of one statement, and where main() goes.
Requesting(stmt, reqs) ==
    LET st == RequestAll(Registry, reqs) IN
    /\ available' = st.available
    /\ requested' = st.requested
    /\ claimed'   = st.claimed
    /\ IF st.err = "none" THEN Goto(After(stmt)) ELSE Raise(stmt, st.err)

Ok(reqs) == RequestAll(Registry, reqs).err = "none"

\* lines 31-39.
TopRequest ==
    /\ At("TopRequest")
    /\ Requesting("TopRequest", TopRequests)
    /\ UNCHANGED <<manifestDefines, boardDecl, defines, commands,
                   signals, clockDomains, syncHome, preBridge, instances,
                   bindings, comb, sent, artifacts, convExit, hw>>

\* lines 41-42: the requests are made while the right-hand side is built.
TopLeds ==
    /\ At("TopLeds")
    /\ Requesting("TopLeds", LedRequests)
    /\ signals' = signals \cup {<<"leds", 8>>}
    /\ comb' = IF Ok(LedRequests) THEN comb \cup LedsComb ELSE comb
    /\ UNCHANGED <<manifestDefines, boardDecl, defines, commands,
                   clockDomains, syncHome, preBridge, instances,
                   bindings, sent, artifacts, convExit, hw>>

\* lines 44-45.
TopClk50 ==
    /\ At("TopClk50")
    /\ Requesting("TopClk50", Clk50Requests)
    /\ signals' = signals \cup {<<"clk50", 1>>}
    /\ comb' = IF Ok(Clk50Requests) THEN comb \cup Clk50Comb ELSE comb
    /\ UNCHANGED <<manifestDefines, boardDecl, defines, commands,
                   clockDomains, syncHome, preBridge, instances,
                   bindings, sent, artifacts, convExit, hw>>

\* lines 47-53: cd_sys and cd_avalon; migen names a domain after its
\* attribute, without the cd_ prefix.
TopDomains ==
    /\ At("TopDomains")
    /\ clockDomains' = clockDomains \cup {"sys", "avalon"}
    /\ Goto(After("TopDomains"))
    /\ UNCHANGED <<manifestDefines, boardDecl, defines, commands, available,
                   requested, claimed, signals, syncHome, preBridge,
                   instances, bindings, comb, sent, artifacts, convExit, hw>>

\* lines 56-64: SoCCore.__init__ builds the SoC's own logic in the sys domain.
TopSoCCore ==
    /\ At("TopSoCCore")
    /\ syncHome' = syncHome \cup {<<"soc", "sys">>}
    /\ Goto(After("TopSoCCore"))
    /\ UNCHANGED <<manifestDefines, boardDecl, defines, commands, available,
                   requested, claimed, signals, clockDomains, preBridge,
                   instances, bindings, comb, sent, artifacts, convExit, hw>>

\* lines 66-81.
TopSignals ==
    /\ At("TopSignals")
    /\ signals' = signals \cup AvalonSignals
    /\ Goto(After("TopSignals"))
    /\ UNCHANGED <<manifestDefines, boardDecl, defines, commands, available,
                   requested, claimed, clockDomains, syncHome, preBridge,
                   instances, bindings, comb, sent, artifacts, convExit, hw>>

\* lines 83-127: ResetSignal() is the reset of the sys domain.
TopDdr3 ==
    /\ At("TopDdr3")
    /\ instances' = Append(instances, "ddr3")
    /\ bindings' = bindings \cup Ddr3Ports
    /\ syncHome' = syncHome \cup {<<"ddr3.global_reset_n", "sys">>,
                                  <<"ddr3.soft_reset_n", "sys">>}
    /\ Goto(After("TopDdr3"))
    /\ UNCHANGED <<manifestDefines, boardDecl, defines, commands, available,
                   requested, claimed, signals, clockDomains, preBridge,
                   comb, sent, artifacts, convExit, hw>>

\* lines 129-134.
TopComb ==
    /\ At("TopComb")
    /\ comb' = comb \cup BridgeComb
    /\ preBridge' = syncHome
    /\ Goto(After("TopComb"))
    /\ UNCHANGED <<manifestDefines, boardDecl, defines, commands, available,
                   requested, claimed, signals, clockDomains, syncHome,
                   instances, bindings, sent, artifacts, convExit, hw>>

\* lines 136-238: the requests of lines 168, 181 and 182 are made while the
\* arguments of Instance are evaluated; the debug block runs when self.debug.
TopSysTop ==
    LET reqs == IF debug THEN SysTopRequests \o DebugRequests ELSE SysTopRequests IN
    /\ At("TopSysTop")
    /\ Requesting("TopSysTop", reqs)
    /\ instances' = IF Ok(reqs) THEN Append(instances, "sys_top") ELSE instances
    /\ bindings' = IF Ok(reqs) THEN bindings \cup SysTopPorts ELSE bindings
    /\ syncHome' = IF Ok(reqs) /\ debug
                   THEN syncHome \cup {<<"spibone", "sys">>, <<"analyzer", "sys">>}
                   ELSE syncHome
    /\ UNCHANGED <<manifestDefines, boardDecl, defines, commands,
                   signals, clockDomains, preBridge, comb, sent, artifacts,
                   convExit, hw>>

\* lines 353-361: Builder(Top(platform), ...).
Builder ==
    /\ At("Builder")
    /\ Goto(After("Builder"))
    /\ UNCHANGED <<manifestDefines, boardDecl, defines, commands, available,
                   requested, claimed, signals, clockDomains, syncHome,
                   preBridge, instances, bindings, comb, sent, artifacts,
                   convExit, hw>>

\* line 363: builder.build writes the platform commands into the project
\* and runs the toolchain, which leaves the .sof.
Build ==
    /\ At("Build")
    /\ sent' = commands
    /\ artifacts' = artifacts \cup {"sof"}
    /\ Goto(After("Build"))
    /\ UNCHANGED <<manifestDefines, boardDecl, defines, commands, available,
                   requested, claimed, signals, clockDomains, syncHome,
                   preBridge, instances, bindings, comb, convExit, hw>>

\* line 363, the toolchain exits nonzero and builder.build raises.
BuildFails ==
    /\ At("Build")
    /\ sent' = commands
    /\ Raise("Build", "SynthesisError")
    /\ UNCHANGED <<manifestDefines, boardDecl, defines, commands, available,
                   requested, claimed, signals, clockDomains, syncHome,
                   preBridge, instances, bindings, comb, artifacts, convExit,
                   hw>>

\* line 365: os.system("quartus_cpf ... .sof ... .svf"); the exit status
\* that os.system returns is dropped.
PostProcess ==
    /\ At("PostProcess")
    /\ \E status \in {0, 1} :
          /\ convExit' = status
          /\ artifacts' = IF status = 0 THEN artifacts \cup {"svf"} ELSE artifacts
    /\ Goto(After("PostProcess"))
    /\ UNCHANGED <<manifestDefines, boardDecl, defines, commands, available,
                   requested, claimed, signals, clockDomains, syncHome,
                   preBridge, instances, bindings, comb, sent, hw>>

Next ==
    \/ LoadManifest \/ LoadManifestFails
    \/ Platform
    \/ AddDesignFiles \/ AddDesignFilesFails
    \/ EmitBaseline \/ MergeDefinesStep \/ EmitMacros
    \/ AddExtension \/ BuildNames
    \/ TopRequest \/ TopLeds \/ TopClk50 \/ TopDomains \/ TopSoCCore
    \/ TopSignals \/ TopDdr3 \/ TopComb \/ TopSysTop
    \/ Builder \/ Build \/ BuildFails \/ PostProcess

Spec == Init /\ [][Next]_vars

(***************************************************************************)
(* The elaborated circuit: the two black boxes put values on their output  *)
(* ports and the combinational logic of Top follows in the same instant.   *)
(***************************************************************************)
\* ddr3 drives avl_ready and leds[4..7].
DriveDdr3 ==
    /\ \E ready \in 0..1, hi \in 0..15 :
          hw' = Settle(hw.avalon_read, hw.avalon_write, ready, hw.leds % 16, hi)
    /\ UNCHANGED buildVars

\* sys_top drives ddr3_read_o, ddr3_write_o and leds[0..2]; leds[3] has no
\* driver and keeps its reset value 0.
DriveSysTop ==
    /\ \E read \in 0..1, write \in 0..1, lo \in 0..7 :
          hw' = Settle(read, write, hw.avalon_ready, lo, hw.leds \div 16)
    /\ UNCHANGED buildVars

CircuitNext == DriveDdr3 \/ DriveSysTop

CircuitInit == Init /\ manifestDefines = <<>> /\ boardDecl = BoardNames

CircuitSpec == CircuitInit /\ [][CircuitNext]_vars


(***************************************************************************)
(* Properties.                                                             *)
(***************************************************************************)
Ran(stmt) == stmt \in Range(visited)

AllRequests == TopRequests \o LedRequests \o Clk50Requests \o SysTopRequests

CapeNames == {r[1] : r \in ExtensionResources(CapeExtension)}

Handed(q) ==
    \E r \in Range(requested) : r[1] = q[1] /\ (q[2] = NoNumber \/ r[2] = q[2])

Primary == {d \in clockDomains : <<"soc", d>> \in syncHome}

RootOf(d) == ClockRoot(bindings, comb, ClockNet(d), Cardinality(comb) + 1)

\* C3: once the clock assignments of lines 129-134 are made there is exactly
\* one primary clock domain (the one the SoC logic is clocked by), its clock
\* derives from ddr3.afi_clk, and everything that was homed to the primary
\* domain before is still homed to it and no longer to an undriven clock.
C3_PrimaryClockIsControllerClock ==
    Ran("TopComb") =>
        /\ Cardinality(Primary) = 1
        /\ \A d \in Primary : RootOf(d) = "ddr3.afi_clk"
        /\ \A h \in preBridge :
              /\ h \in syncHome
              /\ h[2] \in Primary
              /\ RootOf(h[2]) # ClockNet(h[2])

C3_Witness ==
    /\ Ran("TopComb")
    /\ preBridge = {<<"soc", "sys">>, <<"ddr3.global_reset_n", "sys">>,
                    <<"ddr3.soft_reset_n", "sys">>}
    /\ RootOf("sys") = "ddr3.afi_clk"
    /\ RootOf("avalon") = "ddr3.afi_clk"

\* C4: for every value of ready, read and write, waitrequest is the
\* complement of ready and burstbegin is asserted exactly when read and
\* write are both asserted.
C4_BridgeLogic ==
    /\ hw.avalon_waitrequest \in 0..1
    /\ hw.avalon_burstbegin \in 0..1
    /\ (hw.avalon_waitrequest = 1) <=> (hw.avalon_ready = 0)
    /\ (hw.avalon_burstbegin = 1) <=> (hw.avalon_read = 1 /\ hw.avalon_write = 1)

C4_Witness ==
    /\ hw.avalon_read = 1
    /\ hw.avalon_write = 0
    /\ hw.avalon_burstbegin = 0
    /\ hw.avalon_ready = 1
    /\ hw.avalon_waitrequest = 0

MacroPart == SubSeq(commands, Len(BaselineCommands) + 1, Len(commands))

Merged == manifestDefines \o BoardMacros

FirstPos(d, k) ==
    CHOOSE i \in 1..Len(d) : d[i][1] = k /\ \A j \in 1..Len(d) : d[j][1] = k => i <= j

LastPos(d, k) ==
    CHOOSE i \in 1..Len(d) : d[i][1] = k /\ \A j \in 1..Len(d) : d[j][1] = k => j <= i

Rank(d, i) == Cardinality({j \in 1..i : FirstPos(d, d[j][1]) = j})

OrderStable ==
    /\ SubSeq(commands, 1, Len(BaselineCommands)) = BaselineCommands
    /\ Len(MacroPart) = Cardinality(Keys(Merged))
    /\ \A i \in 1..Len(Merged) :
          FirstPos(Merged, Merged[i][1]) = i =>
              \E v \in 0..(MaxValue + 1) :
                  MacroPart[Rank(Merged, i)] = MacroCommand(Merged[i][1], v)

\* C5 (as amended): the VERILOG_MACRO commands follow the thirty baseline
\* commands, one per key of the manifest's defines followed by the board
\* macro set, each key at the position of its first occurrence with the
\* value of its last occurrence; so for a key the manifest also supplies,
\* the board's value replaces the manifest's.
C5_BoardValueWins ==
    Ran("EmitMacros") =>
        /\ OrderStable
        /\ \A i \in 1..Len(Merged) :
              FirstPos(Merged, Merged[i][1]) = i =>
                  MacroPart[Rank(Merged, i)] =
                      MacroCommand(Merged[i][1], Merged[LastPos(Merged, Merged[i][1])][2])
        /\ \A i \in 1..Len(BoardMacros) :
              MacroCommand(BoardMacros[i][1], BoardMacros[i][2]) \in Range(MacroPart)

C5_Witness ==
    /\ Ran("EmitMacros")
    /\ Len(manifestDefines) = 2
    /\ manifestDefines[1] = <<"MISTER_FB", 1>>
    /\ manifestDefines[2] = <<"ALTERA", 0>>
    /\ MacroPart[1] = MacroCommand("MISTER_FB", 1)
    /\ MacroPart[2] = MacroCommand("ALTERA", 1)
    /\ MacroPart[3] = MacroCommand("OSD_HEADER", 1)

\* C5 as claimed: the merge is order-stable and a value the design
\* manifest supplies for a key replaces the fixed value of that key.
C5_DesignValueWins ==
    Ran("EmitMacros") =>
        /\ OrderStable
        /\ \A i \in 1..Len(manifestDefines) :
              MacroCommand(manifestDefines[i][1], manifestDefines[i][2])
                  \in Range(MacroPart)

\* C6: once main() has raised a manifest, registry or binding error the
\* run is in Failed and stays there, the toolchain has not been invoked and
\* no directive has been handed to it.
C6_FailedIsTerminal ==
    /\ [](error \notin {"none", "SynthesisError"} =>
             pc = "Failed" /\ sent = <<>> /\ ~Ran("Build") /\ artifacts = {})
    /\ [][pc = "Failed" => pc' = "Failed" /\ sent' = sent]_vars

C6_Witness ==
    /\ error = "ConstraintError"
    /\ pc = "Failed"
    /\ Ran("EmitMacros")
    /\ bindings # {}
    /\ sent = <<>>

CodeOrder ==
    << "LoadManifest", "Platform", "AddDesignFiles", "EmitBaseline",
       "MergeDefines", "EmitMacros", "AddExtension", "BuildNames",
       "TopRequest", "TopLeds", "TopClk50", "TopDomains", "TopSoCCore",
       "TopSignals", "TopDdr3", "TopComb", "TopSysTop", "Builder", "Build",
       "PostProcess" >>

PinsPopulated ==
    /\ Ran("Platform")
    /\ ExtensionResources(CapeExtension) \subseteq (available \cup Range(requested))

\* C7 (as amended): every run executes a prefix of: load manifest, populate
\* the board's pins, emit the directives, populate the cape's pins,
\* construct the signals, instantiate and bind ddr3, bridge, instantiate
\* and bind sys_top, invoke synthesis, post-process; so pins are populated
\* before any port is bound, directives are emitted before the bus is
\* constructed and bridged, and synthesis is invoked after all of them.
C7_CodeOrder ==
    /\ Len(visited) <= Len(CodeOrder)
    /\ \A i \in 1..Len(visited) : visited[i] = CodeOrder[i]
    /\ pc = "Done" => visited = CodeOrder
    /\ bindings # {} => PinsPopulated
    /\ (signals # {} \/ comb # {} \/ bindings # {}) => Ran("EmitMacros")
    /\ Ran("Build") =>
          /\ BridgeComb \subseteq comb
          /\ instances = <<"ddr3", "sys_top">>
          /\ sent = commands
          /\ Len(commands) = Len(BaselineCommands) + Len(defines)
    /\ Ran("PostProcess") => "sof" \in artifacts

C7_Witness ==
    /\ pc = "Done"
    /\ visited = CodeOrder
    /\ sent = commands
    /\ "svf" \in artifacts

\* C7 as claimed: pins are populated before any port is bound and
\* directives are emitted after bus bridging and before synthesis.
C7_DirectivesAfterBridging ==
    /\ bindings # {} => PinsPopulated
    /\ commands # <<>> => BridgeComb \subseteq comb
    /\ Ran("Build") => Ran("EmitMacros")

\* C8 as claimed: the conversion runs only after a successful synthesis,
\* and when it fails the failure is reported while the build result stays
\* successful and the earlier artifacts stay.
C8_ConversionFailureReported ==
    Ran("PostProcess") =>
        /\ "sof" \in artifacts
        /\ error = "none"
        /\ convExit # 0 => reported # {}

\* C9: only declared resources are handed out; the cape resources are
\* declared before Top's first request; a Top that was built got every
\* resource it asked for; and a request fails only for a resource that
\* neither the board nor the extension list declares.
C9_RequestsResolve ==
    /\ \A r \in Range(requested) :
          r \in BoardResources(boardDecl) \cup ExtensionResources(CapeExtension)
    /\ pc \in {"TopRequest", "TopLeds", "TopClk50", "TopDomains", "TopSoCCore",
               "TopSignals", "TopDdr3", "TopComb", "TopSysTop"} =>
          \A i \in 1..Len(AllRequests) :
              AllRequests[i][1] \in CapeNames =>
                  \E r \in available \cup Range(requested) : r[1] = AllRequests[i][1]
    /\ (Ran("TopSysTop") /\ error = "none") =>
          \A i \in 1..Len(AllRequests) : Handed(AllRequests[i])
    /\ error = "ConstraintError" =>
          \E i \in 1..Len(AllRequests) : AllRequests[i][1] \notin boardDecl \cup CapeNames

C9_Witness ==
    /\ pc = "Builder"
    /\ \A i \in 1..Len(AllRequests) : Handed(AllRequests[i])
    /\ Len(requested) = Len(AllRequests)

BusPairs ==
    { <<"avalon_address", "avalon_address">>,
      <<"avalon_byteenable", "avalon_byteenable">>,
      <<"avalon_read", "avalon_read">>,
      <<"avalon_write", "avalon_write">>,
      <<"avalon_burstcount", "avalon_burstcount">>,
      <<"avalon_readdata", "avalon_readdata">>,
      <<"avalon_writedata", "avalon_writedata">>,
      <<"avalon_readdatavalid", "avalon_readdatavalid">>,
      <<"avalon_ready", "avalon_waitrequest">>,
      <<"avalon_clock", "avalon_clock">> }

On(inst, net) == {x \in bindings : x[1] = inst /\ x[4] = net}

====
